---- MODULE Spec2Model ----
(***************************************************************************)
(* Model of the React product store: the data access layer                 *)
(* (src/services/api.js), the Products page (Listing Controller) and the   *)
(* ProductDetails page (Detail Controller), mounted one at a time by the   *)
(* router of App.jsx.                                                      *)
(*                                                                         *)
(* JavaScript values are modelled as follows: undefined is <<>> and a      *)
(* defined value v is <<v>>; null (an absent product) is <<>> and a stored *)
(* object o is <<o>>; strings typed by the user are sequences of           *)
(* one-character strings.                                                  *)
(***************************************************************************)
EXTENDS Integers, Sequences, FiniteSets, TLC

VARIABLES
    page,           \* which route element is mounted: "Products" | "ProductDetails"
    products,       \* Products: useState([])
    loading,        \* useState(true) of the mounted page
    error,          \* useState(null) of the mounted page
    inputValue,     \* Products: useState('')
    searchQuery,    \* Products: useState('')
    isSearching,    \* Products: useState(false)
    id,             \* ProductDetails: useParams().id (0 when not on that route)
    product,        \* ProductDetails: useState(null)
    selectedImage,  \* ProductDetails: useState(0)
    inflight,       \* fetches issued by the mounted page and not yet settled
    lastSuccess,    \* history: kind of the last fetch of the mounted page that succeeded
    raw,            \* input of a direct application of cleanProductData
    cleaned         \* its result (<<>> before the application)

appVars == <<page, products, loading, error, inputValue, searchQuery, isSearching,
             id, product, selectedImage, inflight, lastSuccess>>
cleanVars == <<raw, cleaned>>
vars == <<page, products, loading, error, inputValue, searchQuery, isSearching,
          id, product, selectedImage, inflight, lastSuccess, raw, cleaned>>

---------------------------------------------------------------------------
(* Bounds *)

MaxLen == 2         \* longest text typed into the search box
NumProducts == 2    \* products 1..NumProducts exist in the remote catalogue
MaxInflight == 2    \* most fetches of one page in flight at once
MaxStock == 1       \* raw records carry a stock in 0..MaxStock

---------------------------------------------------------------------------
(* JavaScript values *)

Undefined == <<>>
Def(v) == <<v>>
Val(x) == x[1]
Null == <<>>
NoError == "null"

Chars == {" ", "a"}
Strings == UNION {[1..n -> Chars] : n \in 0..MaxLen}

RECURSIVE TrimStart(_)
TrimStart(s) == IF s # <<>> /\ Head(s) = " " THEN TrimStart(Tail(s)) ELSE s

RECURSIVE TrimEnd(_)
TrimEnd(s) ==
    IF s # <<>> /\ s[Len(s)] = " " THEN TrimEnd(SubSeq(s, 1, Len(s) - 1)) ELSE s

TrimIdentity(s) == s

\* String.prototype.trim
Trim(s) == TrimEnd(TrimStart(s))

---------------------------------------------------------------------------
(* The remote API (dummyjson.com), as seen through fetch *)

Fields == {"id", "title", "description", "price", "discountPercentage", "rating",
           "stock", "brand", "category", "thumbnail", "images"}
ExtraFields == {"sku", "weight", "tags"}

ProductIds == 1..NumProducts
\* identifiers a detail URL can carry; the last one does not exist remotely
RouteIds == 1..(NumProducts + 1)

ImageCount(i) == i

\* a raw upstream record of product i: the 11 fields plus the extra fields E
RawProduct(i, s, d, E) ==
    [f \in Fields \cup E |->
        CASE f = "id" -> Def(i)
          [] f = "price" -> Def(10 * i)
          [] f = "discountPercentage" -> Def(d)
          [] f = "rating" -> Def(i % 6)
          [] f = "stock" -> Def(s)
          [] f = "images" -> Def([k \in 1..ImageCount(i) |-> <<"image", i, k>>])
          [] OTHER -> Def(<<f, i>>)]

RawRecords ==
    {RawProduct(i, s, d, E) : i \in ProductIds, s \in 0..MaxStock,
                              d \in {0, 10}, E \in SUBSET ExtraFields}

Catalogue(i) == RawProduct(i, i % (MaxStock + 1), 0, ExtraFields)

RECURSIVE AscendingSeq(_)
AscendingSeq(S) ==
    IF S = {} THEN <<>>
    ELSE LET m == CHOOSE x \in S : \A y \in S : x <= y
         IN  <<m>> \o AscendingSeq(S \ {m})

RawList(S) == LET ids == AscendingSeq(S) IN [k \in 1..Len(ids) |-> Catalogue(ids[k])]

ListBody(S) ==
    [products |-> Def(RawList(S)), total |-> Def(Cardinality(S)),
     skip |-> Def(0), limit |-> Def(30)]

\* an error body: a decodable record without any of the expected keys
MessageBody == [message |-> Def(<<"message">>)]

\* fetch() rejected, or response.json() rejected
Rejected == [ok |-> FALSE, data |-> MessageBody]
Json(body) == [ok |-> TRUE, data |-> body]

\* a malformed raw record: product i without its required field "title"
MalformedProduct(i) ==
    [f \in (DOMAIN Catalogue(i)) \ {"title"} |-> Catalogue(i)[f]]

\* a list response whose first record is malformed
MalformedListBody ==
    [products |-> Def([k \in 1..NumProducts |->
                         IF k = 1 THEN MalformedProduct(k) ELSE Catalogue(k)]),
     total |-> Def(NumProducts), skip |-> Def(0), limit |-> Def(30)]

DefaultListResponses ==
    {Rejected, Json(MessageBody), Json(ListBody(ProductIds)), Json(MalformedListBody)}
SearchResponses ==
    {Rejected, Json(MessageBody), Json(MalformedListBody)}
        \cup {Json(ListBody(S)) : S \in SUBSET ProductIds}
DetailResponses(i) ==
    IF i \in ProductIds THEN {Rejected, Json(Catalogue(i)), Json(MalformedProduct(i))}
    ELSE {Rejected, Json(MessageBody)}

AllDetailResponses == UNION {DetailResponses(i) : i \in RouteIds}

---------------------------------------------------------------------------
(* Data access layer: src/services/api.js *)

Get(obj, f) == IF f \in DOMAIN obj THEN obj[f] ELSE Undefined

cleanProductDataSpread(p) == p

cleanProductData(p) ==
    [id |-> Get(p, "id"),
     title |-> Get(p, "title"),
     description |-> Get(p, "description"),
     price |-> Get(p, "price"),
     discountPercentage |-> Get(p, "discountPercentage"),
     rating |-> Get(p, "rating"),
     stock |-> Get(p, "stock"),
     brand |-> Get(p, "brand"),
     category |-> Get(p, "category"),
     thumbnail |-> Get(p, "thumbnail"),
     images |-> Get(p, "images")]

Throw == [threw |-> TRUE, value |-> <<>>]
Return(v) == [threw |-> FALSE, value |-> <<v>>]

MapCleanReversed(list) ==
    [k \in 1..Len(list) |-> cleanProductData(list[Len(list) + 1 - k])]

MapClean(list) == [k \in 1..Len(list) |-> cleanProductData(list[k])]

\* data.products.map throws a TypeError when data.products is undefined
ListResult(resp) ==
    IF ~resp.ok \/ Get(resp.data, "products") = Undefined THEN Throw
    ELSE Return([products |-> MapClean(Val(resp.data.products)),
                 total |-> Get(resp.data, "total"),
                 skip |-> Get(resp.data, "skip"),
                 limit |-> Get(resp.data, "limit")])

fetchProducts(resp) == ListResult(resp)

searchProducts(resp) == ListResult(resp)

fetchProductById(resp) ==
    IF ~resp.ok THEN Throw ELSE Return(cleanProductData(resp.data))

---------------------------------------------------------------------------
(* Requests in flight *)

Request(kind, q, i) == [kind |-> kind, q |-> q, id |-> i]

RemoveAndRetry(seq, i) == Append(SubSeq(seq, 1, i - 1) \o SubSeq(seq, i + 1, Len(seq)), seq[i])

Remove(seq, i) == SubSeq(seq, 1, i - 1) \o SubSeq(seq, i + 1, Len(seq))

---------------------------------------------------------------------------
(* Rendering: which view each page returns for its state *)

\* Products: part_003 lines 77-121
ProductsView ==
    IF loading THEN "loading"
    ELSE IF error # NoError THEN "error"
    ELSE "content"

DetailsViewErrorFirst ==
    IF error # NoError THEN "error"
    ELSE IF loading THEN "loading"
    ELSE IF product = Null THEN "not found"
    ELSE "product"

\* ProductDetails: part_001 lines 29-41
DetailsView ==
    IF loading THEN "loading"
    ELSE IF error # NoError THEN "error"
    ELSE IF product = Null THEN "not found"
    ELSE "product"

\* the product view reads product.images[selectedImage] and product.images.map:
\* a TypeError when images is undefined, which unmounts the whole application
RenderThrows(l, e, p) ==
    ~l /\ e = NoError /\ p # Null /\ Val(p).images = Undefined

Crashed == page = "ProductDetails" /\ RenderThrows(loading, error, product)

\* Products: part_003 lines 106-108
CountLabel == <<IF isSearching THEN "Found" ELSE "Showing", Len(products)>>

\* Products: part_003 lines 109-119
ContentView ==
    IF Len(products) = 0 THEN <<"no-results", searchQuery>> ELSE <<"products-grid", <<>>>>

ControlsUngated == page = "Products"

ControlsAvailable == page = "Products" /\ ProductsView = "content"

ProductShown == page = "ProductDetails" /\ DetailsView = "product" /\ ~Crashed

---------------------------------------------------------------------------
(* Mounting a page: the useState initial values, then the mount effects *)

MountProductsUnguardedSearch ==
    /\ page' = "Products"
    /\ products' = <<>>
    /\ loading' = TRUE
    /\ error' = NoError
    /\ inputValue' = <<>>
    /\ searchQuery' = <<>>
    /\ isSearching' = FALSE
    /\ id' = 0
    /\ product' = Null
    /\ selectedImage' = 0
    /\ inflight' = <<Request("loadProducts", <<>>, 0), Request("performSearch", <<>>, 0)>>
    /\ lastSuccess' = "none"

\* Products: both effects run; performSearch sees '' and only clears isSearching
MountProducts ==
    /\ page' = "Products"
    /\ products' = <<>>
    /\ loading' = TRUE
    /\ error' = NoError
    /\ inputValue' = <<>>
    /\ searchQuery' = <<>>
    /\ isSearching' = FALSE
    /\ id' = 0
    /\ product' = Null
    /\ selectedImage' = 0
    /\ inflight' = <<Request("loadProducts", <<>>, 0)>>
    /\ lastSuccess' = "none"

MountProductDetails(i) ==
    /\ page' = "ProductDetails"
    /\ products' = <<>>
    /\ loading' = TRUE
    /\ error' = NoError
    /\ inputValue' = <<>>
    /\ searchQuery' = <<>>
    /\ isSearching' = FALSE
    /\ id' = i
    /\ product' = Null
    /\ selectedImage' = 0
    /\ inflight' = <<Request("loadProduct", <<>>, i)>>
    /\ lastSuccess' = "none"

\* the application is opened at "/" or at "/product/:id"
Init ==
    /\ \E i \in {0} \cup RouteIds :
        /\ page = IF i = 0 THEN "Products" ELSE "ProductDetails"
        /\ id = i
        /\ inflight = IF i = 0 THEN <<Request("loadProducts", <<>>, 0)>>
                      ELSE <<Request("loadProduct", <<>>, i)>>
    /\ products = <<>>
    /\ loading = TRUE
    /\ error = NoError
    /\ inputValue = <<>>
    /\ searchQuery = <<>>
    /\ isSearching = FALSE
    /\ product = Null
    /\ selectedImage = 0
    /\ lastSuccess = "none"
    /\ raw = Catalogue(1)
    /\ cleaned = Null

---------------------------------------------------------------------------
(* Products page (Listing Controller): src/pages/Products.jsx = part_003 *)

\* what the async functions do once their await settles: try / catch / finally
loadProductsNoFinally(result) ==
    [products |-> IF result.threw THEN products ELSE Val(result.value).products,
     error |-> IF result.threw THEN "Failed to load products" ELSE error,
     loading |-> IF result.threw THEN loading ELSE FALSE]

loadProductsAfterAwait(result) ==
    [products |-> IF result.threw THEN products ELSE Val(result.value).products,
     error |-> IF result.threw THEN "Failed to load products" ELSE error,
     loading |-> FALSE]

performSearchNoFlag(result) ==
    [products |-> IF result.threw THEN products ELSE Val(result.value).products,
     isSearching |-> isSearching,
     error |-> IF result.threw THEN "Failed to search products" ELSE error,
     loading |-> FALSE]

performSearchAfterAwait(result) ==
    [products |-> IF result.threw THEN products ELSE Val(result.value).products,
     isSearching |-> IF result.threw THEN isSearching ELSE TRUE,
     error |-> IF result.threw THEN "Failed to search products" ELSE error,
     loading |-> FALSE]

handleClearDropsProducts(result) ==
    [products |-> IF result.threw THEN <<>> ELSE Val(result.value).products,
     error |-> IF result.threw THEN "Failed to load products" ELSE error,
     loading |-> FALSE]

handleClearAfterAwait(result) ==
    [products |-> IF result.threw THEN products ELSE Val(result.value).products,
     error |-> IF result.threw THEN "Failed to load products" ELSE error,
     loading |-> FALSE]

onChangeLiveSearch(v) ==
    /\ ControlsAvailable
    /\ inputValue' = v
    /\ searchQuery' = Trim(v)
    /\ IF Trim(v) = searchQuery THEN UNCHANGED <<loading, inflight, isSearching>>
       ELSE IF Trim(v) = <<>>
       THEN isSearching' = FALSE /\ UNCHANGED <<loading, inflight>>
       ELSE /\ loading' = TRUE
            /\ inflight' = Append(inflight, Request("performSearch", Trim(v), 0))
            /\ UNCHANGED isSearching
    /\ UNCHANGED <<page, products, error, id, product, selectedImage, lastSuccess,
                   raw, cleaned>>

\* onChange of the search input
onChange(v) ==
    /\ ControlsAvailable
    /\ inputValue' = v
    /\ UNCHANGED <<page, products, loading, error, searchQuery, isSearching,
                   id, product, selectedImage, inflight, lastSuccess, raw, cleaned>>

performSearchKeepsFlag(q) ==
    IF q = <<>>
    THEN UNCHANGED <<isSearching, loading, inflight>>
    ELSE /\ loading' = TRUE
         /\ inflight' = Append(inflight, Request("performSearch", q, 0))
         /\ UNCHANGED isSearching

performSearchTwice(q) ==
    IF q = <<>>
    THEN /\ isSearching' = FALSE
         /\ UNCHANGED <<loading, inflight>>
    ELSE /\ loading' = TRUE
         /\ inflight' = inflight \o <<Request("performSearch", q, 0),
                                      Request("performSearch", q, 0)>>
         /\ UNCHANGED isSearching

\* the effect on [searchQuery], run because searchQuery became q
performSearch(q) ==
    IF q = <<>>
    THEN /\ isSearching' = FALSE
         /\ UNCHANGED <<loading, inflight>>
    ELSE /\ loading' = TRUE
         /\ inflight' = Append(inflight, Request("performSearch", q, 0))
         /\ UNCHANGED isSearching

handleSearchAlwaysRuns ==
    /\ ControlsAvailable
    /\ searchQuery' = Trim(inputValue)
    /\ performSearch(Trim(inputValue))
    /\ UNCHANGED <<page, products, error, inputValue, id, product, selectedImage,
                   lastSuccess, raw, cleaned>>

\* Search button: setSearchQuery(inputValue.trim()); the effect runs only if
\* the committed value differs from the current one
handleSearch ==
    /\ ControlsAvailable
    /\ LET q == Trim(inputValue) IN
         IF q = searchQuery
         THEN UNCHANGED <<searchQuery, isSearching, loading, inflight>>
         ELSE searchQuery' = q /\ performSearch(q)
    /\ UNCHANGED <<page, products, error, inputValue, id, product, selectedImage,
                   lastSuccess, raw, cleaned>>

Keys == {"Enter", "a"}

handleKeyDown(key) ==
    /\ ControlsAvailable
    /\ IF key = "Enter" THEN handleSearch ELSE UNCHANGED vars

handleClearStateOnly ==
    /\ ControlsAvailable
    /\ isSearching
    /\ inputValue' = <<>>
    /\ searchQuery' = <<>>
    /\ isSearching' = FALSE
    /\ UNCHANGED <<page, products, loading, error, id, product, selectedImage,
                   inflight, lastSuccess, raw, cleaned>>

\* Clear button (rendered only while isSearching); the effect on [searchQuery]
\* runs as well when searchQuery changes to ''
handleClear ==
    /\ ControlsAvailable
    /\ isSearching
    /\ inputValue' = <<>>
    /\ searchQuery' = <<>>
    /\ loading' = TRUE
    /\ inflight' = Append(inflight, Request("handleClear", <<>>, 0))
    /\ isSearching' = IF searchQuery # <<>> THEN FALSE ELSE isSearching
    /\ UNCHANGED <<page, products, error, id, product, selectedImage,
                   lastSuccess, raw, cleaned>>

loadProductsSettle(i, resp) ==
    /\ page = "Products"
    /\ i \in 1..Len(inflight)
    /\ inflight[i].kind = "loadProducts"
    /\ resp \in DefaultListResponses
    /\ LET result == fetchProducts(resp)
           new == loadProductsAfterAwait(result)
       IN  /\ products' = new.products
           /\ error' = new.error
           /\ loading' = new.loading
           /\ lastSuccess' = IF result.threw THEN lastSuccess ELSE "default"
    /\ inflight' = Remove(inflight, i)
    /\ UNCHANGED <<page, inputValue, searchQuery, isSearching, id, product,
                   selectedImage, raw, cleaned>>

performSearchSettle(i, resp) ==
    /\ page = "Products"
    /\ i \in 1..Len(inflight)
    /\ inflight[i].kind = "performSearch"
    /\ resp \in SearchResponses
    /\ LET result == searchProducts(resp)
           new == performSearchAfterAwait(result)
       IN  /\ products' = new.products
           /\ isSearching' = new.isSearching
           /\ error' = new.error
           /\ loading' = new.loading
           /\ lastSuccess' = IF result.threw THEN lastSuccess ELSE "search"
    /\ inflight' = Remove(inflight, i)
    /\ UNCHANGED <<page, inputValue, searchQuery, id, product, selectedImage,
                   raw, cleaned>>

handleClearSettle(i, resp) ==
    /\ page = "Products"
    /\ i \in 1..Len(inflight)
    /\ inflight[i].kind = "handleClear"
    /\ resp \in DefaultListResponses
    /\ LET result == fetchProducts(resp)
           new == handleClearAfterAwait(result)
       IN  /\ products' = new.products
           /\ error' = new.error
           /\ loading' = new.loading
           /\ lastSuccess' = IF result.threw THEN lastSuccess ELSE "default"
    /\ inflight' = Remove(inflight, i)
    /\ UNCHANGED <<page, inputValue, searchQuery, isSearching, id, product,
                   selectedImage, raw, cleaned>>

\* a product card is a <Link to={`/product/${product.id}`}>
CardClick(k) ==
    /\ ControlsAvailable
    /\ k \in 1..Len(products)
    /\ products[k].id # Undefined
    /\ MountProductDetails(Val(products[k].id))
    /\ UNCHANGED cleanVars

---------------------------------------------------------------------------
(* ProductDetails page (Detail Controller): src/pages/ProductDetails.jsx = part_001 *)

loadProductFirstWins(result) ==
    [product |-> IF result.threw \/ product # Null THEN product ELSE result.value,
     error |-> IF result.threw THEN "Failed to load product" ELSE error,
     loading |-> FALSE]

loadProductAfterAwait(result) ==
    [product |-> IF result.threw THEN product ELSE result.value,
     error |-> IF result.threw THEN "Failed to load product" ELSE error,
     loading |-> FALSE]

\* the route parameter changes while ProductDetails stays mounted: the effect
\* on [id] runs again, nothing else is touched
IdChange(newId) ==
    /\ page = "ProductDetails"
    /\ ~Crashed
    /\ newId \in RouteIds
    /\ newId # id
    /\ Len(inflight) < MaxInflight
    /\ id' = newId
    /\ loading' = TRUE
    /\ inflight' = Append(inflight, Request("loadProduct", <<>>, newId))
    /\ UNCHANGED <<page, products, error, inputValue, searchQuery, isSearching,
                   product, selectedImage, lastSuccess, raw, cleaned>>

loadProductSettle(i, resp) ==
    /\ page = "ProductDetails"
    /\ ~Crashed
    /\ i \in 1..Len(inflight)
    /\ inflight[i].kind = "loadProduct"
    /\ resp \in DetailResponses(inflight[i].id)
    /\ LET result == fetchProductById(resp)
           new == loadProductAfterAwait(result)
       IN  /\ product' = new.product
           /\ error' = new.error
           /\ loading' = new.loading
           /\ lastSuccess' = IF result.threw THEN lastSuccess ELSE "detail"
           /\ inflight' = IF RenderThrows(new.loading, new.error, new.product)
                          THEN <<>> ELSE Remove(inflight, i)
    /\ UNCHANGED <<page, products, inputValue, searchQuery, isSearching, id,
                   selectedImage, raw, cleaned>>

\* onClick of a thumbnail: one is rendered per element of product.images
setSelectedImage(index) ==
    /\ ProductShown
    /\ index \in 0..(Len(Val(Val(product).images)) - 1)
    /\ selectedImage' = index
    /\ UNCHANGED <<page, products, loading, error, inputValue, searchQuery,
                   isSearching, id, product, inflight, lastSuccess, raw, cleaned>>

\* <Link to="/">Back to Products</Link>
BackLink ==
    /\ ProductShown
    /\ MountProducts
    /\ UNCHANGED cleanVars

---------------------------------------------------------------------------
(* App.jsx *)

\* the header's <a href="/"> reloads the application at the Products route
HeaderLink ==
    /\ ~Crashed
    /\ MountProducts
    /\ UNCHANGED cleanVars

---------------------------------------------------------------------------
(* Direct application of the normalization function *)

InitClean ==
    /\ page = "Products"
    /\ id = 0
    /\ inflight = <<Request("loadProducts", <<>>, 0)>>
    /\ products = <<>>
    /\ loading = TRUE
    /\ error = NoError
    /\ inputValue = <<>>
    /\ searchQuery = <<>>
    /\ isSearching = FALSE
    /\ product = Null
    /\ selectedImage = 0
    /\ lastSuccess = "none"
    /\ raw \in RawRecords
    /\ cleaned = Null

PickRaw ==
    /\ raw' \in RawRecords
    /\ cleaned' = Null
    /\ UNCHANGED appVars

ApplyClean ==
    /\ cleaned = Null
    /\ cleaned' = Def(cleanProductData(raw))
    /\ UNCHANGED <<raw, page, products, loading, error, inputValue, searchQuery,
                   isSearching, id, product, selectedImage, inflight, lastSuccess>>

---------------------------------------------------------------------------
(* Specifications *)

Settle ==
    \E i \in 1..MaxInflight :
        \/ \E resp \in DefaultListResponses : loadProductsSettle(i, resp)
        \/ \E resp \in SearchResponses : performSearchSettle(i, resp)
        \/ \E resp \in DefaultListResponses : handleClearSettle(i, resp)
        \/ \E resp \in AllDetailResponses : loadProductSettle(i, resp)

Next ==
    \/ \E v \in Strings : onChange(v)
    \/ handleSearch
    \/ \E key \in Keys : handleKeyDown(key)
    \/ handleClear
    \/ \E k \in 1..NumProducts : CardClick(k)
    \/ \E i \in 1..MaxInflight, resp \in DefaultListResponses : loadProductsSettle(i, resp)
    \/ \E i \in 1..MaxInflight, resp \in SearchResponses : performSearchSettle(i, resp)
    \/ \E i \in 1..MaxInflight, resp \in DefaultListResponses : handleClearSettle(i, resp)
    \/ \E newId \in RouteIds : IdChange(newId)
    \/ \E i \in 1..MaxInflight, resp \in AllDetailResponses : loadProductSettle(i, resp)
    \/ \E index \in 0..NumProducts : setSelectedImage(index)
    \/ BackLink
    \/ HeaderLink

Spec == Init /\ [][Next]_vars

\* every issued request eventually succeeds or fails
FairSpec == Spec /\ WF_vars(Settle)

NextClean == PickRaw \/ ApplyClean

SpecClean == InitClean /\ [][NextClean]_vars

---------------------------------------------------------------------------
(* Properties *)

View == IF page = "Products" THEN ProductsView ELSE DetailsView

IsDefaultFetch(r) == r.kind \in {"loadProducts", "handleClear"}

\* a step in which a fetch of the mounted page settles successfully
SettleSucceeds ==
    \E i \in 1..MaxInflight :
        \/ \E resp \in DefaultListResponses :
               loadProductsSettle(i, resp) /\ ~fetchProducts(resp).threw
        \/ \E resp \in SearchResponses :
               performSearchSettle(i, resp) /\ ~searchProducts(resp).threw
        \/ \E resp \in DefaultListResponses :
               handleClearSettle(i, resp) /\ ~fetchProducts(resp).threw
        \/ \E resp \in AllDetailResponses :
               loadProductSettle(i, resp) /\ ~fetchProductById(resp).threw

\* C1: committing an input whose trimmed value is empty acts as clearSearch():
\* the step issues one fetch of the default listing (loading becomes true) and
\* leaves committedQuery empty and isSearching false.
C1_EmptyCommitIsClear ==
    [][(handleSearch /\ Trim(inputValue) = <<>>) =>
          /\ searchQuery' = <<>>
          /\ ~isSearching'
          /\ loading'
          /\ Len(inflight') = Len(inflight) + 1
          /\ IsDefaultFetch(inflight'[Len(inflight')])]_vars

\* C2: once the load for an identifier the remote does not know has settled, the
\* product is absent and the error or not-found view is shown; no stored product
\* has undefined fields.
C2_NotFoundIsAbsent ==
    page = "ProductDetails" =>
        /\ (id \notin ProductIds /\ inflight = <<>>) =>
               (product = Null /\ DetailsView \in {"error", "not found"})
        /\ product # Null => \A f \in Fields : Val(product)[f] # Undefined

\* C3: loading is true exactly while a fetch of the mounted page is unresolved.
C3_LoadingIffInFlight == loading <=> inflight # <<>>

\* C4: when every request eventually settles, loading is never left true: it is
\* false whenever no request is in flight, and every state with loading = true
\* is followed by one with loading = false.
C4_LoadingEventuallyFalse ==
    /\ [](inflight = <<>> => ~loading)
    /\ loading ~> ~loading

\* a failed fetch has settled and nothing is in flight
C4_Witness == inflight = <<>> /\ error # NoError /\ ~loading

\* C5: on the Products page isSearching is true exactly when the most recent
\* successful fetch was a search.
C5_IsSearchingIffLastSearch ==
    page = "Products" => (isSearching <=> lastSuccess = "search")

\* C6: every query sent to the search endpoint is the committed query, is not
\* empty and has no leading or trailing whitespace.
C6_SearchQueryTrimmedNonEmpty ==
    \A k \in 1..Len(inflight) :
        inflight[k].kind = "performSearch" =>
            LET q == inflight[k].q IN
                /\ q = searchQuery
                /\ q # <<>>
                /\ q[1] # " "
                /\ q[Len(q)] # " "

\* a search is in flight for an input that was typed with surrounding whitespace
C6_Witness ==
    /\ \E k \in 1..Len(inflight) : inflight[k].kind = "performSearch"
    /\ inputValue # searchQuery

\* C7: when a fetch succeeds, the page holds no error afterwards and does not
\* show the error view, whatever failed before.
C7_SuccessClearsError ==
    [][SettleSucceeds => (error' = NoError /\ View' # "error")]_vars

\* C8: when the identifier changes, product and error become absent and the
\* selected image index becomes 0 in that same step.
C8_IdChangeResets ==
    [][(\E newId \in RouteIds : IdChange(newId)) =>
          (product' = Null /\ error' = NoError /\ selectedImage' = 0)]_vars

\* C9: whenever a product is displayed, the selected image index is within the
\* product's images.
C9_SelectedImageInBounds ==
    ProductShown =>
        (0 <= selectedImage /\ selectedImage < Len(Val(Val(product).images)))

\* C10: the normalization of a raw record holding the 11 fields and any extra
\* fields has exactly the 11 fields, each with the raw record's value.
C10_AllowListProjection ==
    cleaned # Null =>
        /\ DOMAIN Val(cleaned) = Fields
        /\ \A f \in Fields : Val(cleaned)[f] = raw[f]

\* a record with extra fields has been normalized
C10_Witness == cleaned # Null /\ DOMAIN raw # Fields

\* the allow-list projection of a list of raw records, stated field by field
Projection(list) ==
    [k \in 1..Len(list) |-> [f \in Fields |-> Get(list[k], f)]]

\* C11 as stated: in every state where the controls are available and the trimmed
\* input q is not empty, a commit sets committedQuery = q and issues one search
\* call with q, a repeated commit of the current query included.
C11_EveryCommitSearches ==
    (ControlsAvailable /\ Trim(inputValue) # <<>>) =>
        ENABLED (/\ handleSearch
                 /\ searchQuery' = Trim(inputValue)
                 /\ loading'
                 /\ inflight' = <<Request("performSearch", Trim(inputValue), 0)>>)

\* C11 amended: a commit whose trimmed input q is not empty and differs from the
\* committed query sets committedQuery = q and issues exactly one search call
\* with q; when that call succeeds products is its result and isSearching is
\* true, when it fails the search error is stored.
C11_CommitSearches ==
    [][/\ (handleSearch /\ Trim(inputValue) # <<>> /\ Trim(inputValue) # searchQuery) =>
             /\ searchQuery' = Trim(inputValue)
             /\ loading'
             /\ inflight' = Append(inflight, Request("performSearch", Trim(inputValue), 0))
       /\ \A i \in 1..MaxInflight, resp \in SearchResponses :
             performSearchSettle(i, resp) =>
                 IF ~resp.ok \/ Get(resp.data, "products") = Undefined
                 THEN error' = "Failed to search products"
                 ELSE /\ products' = Projection(Val(resp.data.products))
                      /\ isSearching'
                      /\ error' = error]_vars

\* a committed search has succeeded
C11_Witness ==
    /\ page = "Products"
    /\ searchQuery # <<>>
    /\ isSearching
    /\ lastSuccess = "search"
    /\ ~loading

\* C12: pressing Clear after a search empties rawInput and committedQuery, issues
\* exactly one call, to the default listing endpoint, and leaves isSearching
\* false; when the call succeeds products is the default listing it returned.
C12_ClearRefetchesDefault ==
    [][/\ handleClear =>
             /\ inputValue' = <<>>
             /\ searchQuery' = <<>>
             /\ ~isSearching'
             /\ loading'
             /\ inflight' = Append(inflight, Request("handleClear", <<>>, 0))
       /\ \A i \in 1..MaxInflight, resp \in DefaultListResponses :
             (handleClearSettle(i, resp) /\ resp.ok
                 /\ Get(resp.data, "products") # Undefined) =>
                 /\ products' = Projection(Val(resp.data.products))
                 /\ ~isSearching'
                 /\ searchQuery' = <<>>]_vars

\* Clear has been pressed after a successful search
C12_Witness ==
    /\ inflight = <<Request("handleClear", <<>>, 0)>>
    /\ lastSuccess = "search"
    /\ ~isSearching
    /\ searchQuery = <<>>

\* C13: from mount until its fetch settles the Products page is loading with
\* exactly one request in flight, to the default listing endpoint; on success
\* products is the fetched list, isSearching is false, error is absent and
\* loading is false; on failure the load error is stored, products stays empty
\* and loading is false.
C13_MountLoadsDefault ==
    /\ []((page = "Products" /\ lastSuccess = "none" /\ error = NoError) =>
             /\ loading
             /\ inflight = <<Request("loadProducts", <<>>, 0)>>
             /\ products = <<>>
             /\ ~isSearching)
    /\ [][\A i \in 1..MaxInflight, resp \in DefaultListResponses :
             loadProductsSettle(i, resp) =>
                 IF ~resp.ok \/ Get(resp.data, "products") = Undefined
                 THEN /\ error' = "Failed to load products"
                      /\ products' = <<>>
                      /\ ~loading'
                 ELSE /\ products' = Projection(Val(resp.data.products))
                      /\ ~isSearching'
                      /\ error' = NoError
                      /\ ~loading']_vars

\* the mount fetch has succeeded
C13_Witness ==
    /\ page = "Products"
    /\ lastSuccess = "default"
    /\ products # <<>>
    /\ error = NoError
    /\ ~loading

\* C14: when the search for the committed query q succeeds with no product, the
\* page has isSearching = true, products empty and committedQuery = q, and
\* renders the count label "Found 0 products" and the no-results message for q.
C14_EmptySearchShowsNoResults ==
    [][\A i \in 1..MaxInflight, resp \in SearchResponses :
          (performSearchSettle(i, resp) /\ resp.ok
              /\ Get(resp.data, "products") = Def(<<>>)) =>
              /\ isSearching'
              /\ products' = <<>>
              /\ searchQuery' = inflight[i].q
              /\ ProductsView' = "content"
              /\ CountLabel' = <<"Found", 0>>
              /\ ContentView' = <<"no-results", inflight[i].q>>]_vars

\* a search has succeeded with zero products
C14_Witness ==
    /\ page = "Products"
    /\ lastSuccess = "search"
    /\ isSearching
    /\ products = <<>>
    /\ ProductsView = "content"

\* C15: a keystroke changes rawInput only and issues no request; on the Products
\* page a request is issued only by a commit, by Clear or by mounting the page.
C15_KeystrokeOnlyChangesInput ==
    [][/\ (\E v \in Strings : onChange(v)) =>
             UNCHANGED <<products, loading, error, searchQuery, isSearching, inflight>>
       /\ (page = "Products" /\ page' = "Products" /\ Len(inflight') > Len(inflight)) =>
             (handleSearch \/ handleKeyDown("Enter") \/ handleClear \/ HeaderLink)]_vars

\* text has been typed and nothing was committed or requested
C15_Witness ==
    /\ page = "Products"
    /\ Trim(inputValue) # <<>>
    /\ searchQuery = <<>>
    /\ inflight = <<>>
    /\ ~loading

\* the generic message a controller stores when the fetch of a request fails
FailureMessage(kind) ==
    CASE kind = "loadProducts" -> "Failed to load products"
      [] kind = "handleClear" -> "Failed to load products"
      [] kind = "performSearch" -> "Failed to search products"
      [] kind = "loadProduct" -> "Failed to load product"

\* a step in which the request at position i settles with response resp
SettleStep(i, resp) ==
    \/ resp \in DefaultListResponses /\ loadProductsSettle(i, resp)
    \/ resp \in SearchResponses /\ performSearchSettle(i, resp)
    \/ resp \in DefaultListResponses /\ handleClearSettle(i, resp)
    \/ resp \in AllDetailResponses /\ loadProductSettle(i, resp)

AllResponses == DefaultListResponses \cup SearchResponses \cup AllDetailResponses

\* the fetch function of a request rejects on this response
Fails(r, resp) ==
    ~resp.ok \/ (r.kind # "loadProduct" /\ Get(resp.data, "products") = Undefined)

\* C16: when a fetch fails the page stores the generic message of its action,
\* keeps products, product, committedQuery and isSearching as they were, and
\* loading becomes false.
C16_FailureStoresGenericMessage ==
    [][\A i \in 1..MaxInflight, resp \in AllResponses :
          (SettleStep(i, resp) /\ Fails(inflight[i], resp)) =>
              /\ error' = FailureMessage(inflight[i].kind)
              /\ UNCHANGED <<products, product, searchQuery, isSearching>>
              /\ ~loading']_vars

\* a search failed and the list loaded before it is still stored
C16_Witness ==
    /\ page = "Products"
    /\ error = "Failed to search products"
    /\ products # <<>>
    /\ searchQuery # <<>>
    /\ ~loading

\* a stored product has all of its 11 fields defined
WellFormed(p) == \A f \in Fields : p[f] # Undefined

\* C17: a raw record that lacks a required field is never normalized into a
\* product held in controller state: every stored product has its 11 fields.
C17_MalformedNeverStored ==
    /\ \A k \in 1..Len(products) : WellFormed(products[k])
    /\ product # Null => WellFormed(Val(product))

\* C18: the list returned by fetchProducts and searchProducts has the length and
\* order of the response's products, element k being the projection of raw
\* record k; total, skip and limit are the response's; the Products page stores
\* that list unchanged.
C18_ListOrderPreserved ==
    [][\A i \in 1..MaxInflight, resp \in DefaultListResponses \cup SearchResponses :
          (SettleStep(i, resp) /\ inflight[i].kind # "loadProduct"
              /\ ~Fails(inflight[i], resp)) =>
              LET rawList == Val(resp.data.products)
                  result == IF inflight[i].kind = "performSearch"
                            THEN Val(searchProducts(resp).value)
                            ELSE Val(fetchProducts(resp).value)
              IN  /\ Len(result.products) = Len(rawList)
                  /\ \A k \in 1..Len(rawList) :
                         /\ DOMAIN result.products[k] = Fields
                         /\ \A f \in Fields :
                                result.products[k][f] = Get(rawList[k], f)
                  /\ result.total = resp.data.total
                  /\ result.skip = resp.data.skip
                  /\ result.limit = resp.data.limit
                  /\ products' = result.products]_vars

\* the default load of NumProducts raw records with extra fields is stored as
\* NumProducts products of exactly the 11 fields
C18_Witness ==
    /\ page = "Products"
    /\ lastSuccess = "default"
    /\ Len(products) = NumProducts
    /\ \A k \in 1..Len(products) :
           DOMAIN products[k] = Fields /\ products[k].id = Def(k)

\* C19: a fetch started while another one of the same page is in flight cancels
\* nothing, and every response that arrives successfully overwrites the stored
\* product, whether or not it answers the latest request.
C19_LastResponseWins ==
    [][/\ (\E newId \in RouteIds : IdChange(newId)) =>
             (Len(inflight') = Len(inflight) + 1
                 /\ SubSeq(inflight', 1, Len(inflight)) = inflight)
       /\ \A i \in 1..MaxInflight, resp \in AllDetailResponses :
             (loadProductSettle(i, resp) /\ resp.ok) =>
                 product' = Def([f \in Fields |-> Get(resp.data, f)])]_vars

\* every fetch succeeded and the response to an earlier request arrived last:
\* the stored product is not the one of the current identifier
C19_Witness ==
    /\ page = "ProductDetails"
    /\ inflight = <<>>
    /\ error = NoError
    /\ product # Null
    /\ Val(product).id # Undefined
    /\ Val(product).id # Def(id)

\* C20: once every fetch of the page has settled, all of them successfully, the
\* state is that of the latest intent: the stored product is the one of the
\* current identifier, and the stored list comes from a search exactly when a
\* query is committed.
C20_StateReflectsLatestIntent ==
    (inflight = <<>> /\ error = NoError /\ ~Crashed) =>
        /\ (page = "ProductDetails" /\ product # Null /\ id \in ProductIds) =>
               Val(product).id = Def(id)
        /\ page = "Products" =>
               (searchQuery # <<>> <=> lastSuccess = "search")

\* C21: on the Products page an empty committedQuery means not searching:
\* searchQuery = '' implies isSearching = false in every reachable state.
C21_EmptyQueryNotSearching ==
    page = "Products" => (searchQuery = <<>> => ~isSearching)

\* the committed query was emptied after a successful search, whose results are
\* still stored
C21_Witness ==
    /\ page = "Products"
    /\ searchQuery = <<>>
    /\ lastSuccess = "search"
    /\ ~isSearching
    /\ ~loading

\* C22: the view of each page follows the precedence loading > error > content:
\* while loading only the loading view is returned, otherwise with an error only
\* the error view; on the detail page an absent product with no error and no
\* load pending gives "Product not found", and the product view is returned
\* only when loading is false, error is absent and product is present.
C22_ViewPrecedence ==
    /\ loading => View = "loading"
    /\ (~loading /\ error # NoError) => View = "error"
    /\ (page = "Products" /\ View = "content") => (~loading /\ error = NoError)
    /\ page = "ProductDetails" =>
          /\ (~loading /\ error = NoError /\ product = Null) => View = "not found"
          /\ View = "product" => (~loading /\ error = NoError /\ product # Null)

\* a load is pending on the detail page while an earlier error and an earlier
\* product are both still stored
C22_Witness ==
    /\ page = "ProductDetails"
    /\ loading
    /\ error # NoError
    /\ product # Null

\* a step that mounts a page: its mount effect starts the page's first fetch
MountTrigger ==
    \/ \E k \in 1..NumProducts : CardClick(k)
    \/ BackLink
    \/ HeaderLink

\* a step on a mounted page that starts a fetch: a query is committed, Clear is
\* pressed, or the route identifier changes
FetchTrigger ==
    \/ handleSearch
    \/ handleKeyDown("Enter")
    \/ handleClear
    \/ \E newId \in RouteIds : IdChange(newId)

\* C23: no operation retries. A request joins the requests in flight only in a
\* step of a fetch-triggering action, which issues exactly one request; a step
\* in which a request settles, successfully or not, issues none.
C23_NoRetry ==
    [][/\ Settle => (Len(inflight') < Len(inflight)
                       /\ \A r \in 1..Len(inflight') :
                              \E k \in 1..Len(inflight) : inflight'[r] = inflight[k])
       /\ inflight' # inflight =>
              \/ Settle
              \/ FetchTrigger /\ inflight' = Append(inflight, inflight'[Len(inflight')])
              \/ MountTrigger /\ Len(inflight') = 1]_vars

\* a request has failed and nothing more is in flight
C23_Witness ==
    /\ inflight = <<>>
    /\ error # NoError
    /\ ~loading
    /\ lastSuccess = "none"

\* what the user can do with the elements the Products page renders
ListingUserAction ==
    \/ \E v \in Strings : onChange(v)
    \/ handleSearch
    \/ \E key \in Keys : handleKeyDown(key)
    \/ handleClear
    \/ \E k \in 1..NumProducts : CardClick(k)

\* C24: on the Products page typing, commit and Clear are possible only when
\* loading is false and error is absent, and Clear only when isSearching is true;
\* so at most one fetch of the page is in flight in any reachable state, and
\* none is in flight in a state where the user can act.
C24_ControlsGated ==
    /\ page = "Products" => Len(inflight) <= 1
    /\ ENABLED ListingUserAction =>
          (page = "Products" /\ ~loading /\ error = NoError /\ inflight = <<>>)
    /\ ENABLED handleClear => isSearching

\* the fetch started by Clear is in flight and the controls are replaced by the
\* loading view
C24_Witness ==
    /\ page = "Products"
    /\ loading
    /\ Len(inflight) = 1
    /\ inflight[1].kind = "handleClear"
    /\ ~ENABLED ListingUserAction

\* what a commit can change: the controller's state and the requests in flight
CommitVars == <<products, loading, error, searchQuery, isSearching, inflight>>

\* C25: a commit whose trimmed input equals the current committedQuery is a
\* no-op: it can be made, by the button or by Enter, and it issues no request and
\* leaves products, loading, error, committedQuery and isSearching as they are.
C25_RepeatedCommitIsNoOp ==
    (ControlsAvailable /\ Trim(inputValue) = searchQuery) =>
        /\ ENABLED handleSearch
        /\ ~ENABLED (handleSearch /\ CommitVars' # CommitVars)
        /\ ENABLED handleKeyDown("Enter")
        /\ ~ENABLED (handleKeyDown("Enter") /\ CommitVars' # CommitVars)

\* the results of a search are shown and the input, padded with a space, still
\* trims to the committed query
C25_Witness ==
    /\ ControlsAvailable
    /\ isSearching
    /\ searchQuery # <<>>
    /\ inputValue # searchQuery
    /\ Trim(inputValue) = searchQuery

====
